---------------------------- MODULE Spec2Model ----------------------------
(***************************************************************************)
(* West Midlands animal-rescue data preparation (src/config.py,            *)
(* src/utils.py) as state machines over small in-memory tables.            *)
(*                                                                         *)
(* A text value (description, ward name, keyword) is a sequence of         *)
(* one-character strings, so that lower-casing, substring search and       *)
(* str.replace are computed character by character as pandas/Python do.    *)
(* A missing text value (NaN) is the one-element sequence NaN.             *)
(*                                                                         *)
(* Four programs are modelled, one specification each:                     *)
(*   SpecTime    add_time_dimensions on a table of incident dates          *)
(*   SpecAnimals import of config.py, then group_animals                   *)
(*   SpecWards   modify_wards, applied repeatedly to the same table        *)
(*   SpecJoin    combine_maps_w_data                                       *)
(***************************************************************************)
EXTENDS Integers, Sequences, FiniteSets, TLC

VARIABLES
    pc,               \* position of the calling script
    to_prep,          \* the incident table, mutated in place by every function
    prev,             \* the table as it was before the most recent call
    raised,           \* "none", or the exception the most recent call raised
    corona_periods,   \* config.corona_periods once config.py is imported
    animal_keywords,  \* config.animal_keywords once config.py is imported
    stripped,         \* the Ward column right after utils.py line 52
    calls,            \* number of modify_wards calls made on to_prep
    kml_data,         \* boundary rows handed to combine_maps_w_data
    census_data,      \* census rows handed to combine_maps_w_data
    map_data          \* the table combine_maps_w_data returns

vars == <<pc, to_prep, prev, raised, corona_periods, animal_keywords,
          stripped, calls, kml_data, census_data, map_data>>

-----------------------------------------------------------------------------
(* Bounds of the model *)

\* rows of the table given to add_time_dimensions
MaxDateRows == 1

\* rows of the table given to group_animals
MaxDescRows == 2

\* rows of the table given to modify_wards
MaxWardRows == 1

\* calls of modify_wards on the same table
MaxCalls == 2

\* rows of the incident table given to combine_maps_w_data
MaxIncRows == 3

-----------------------------------------------------------------------------
(* Text *)

NaN == <<"NaN">>

\* p occurs in s starting at position i
OccursAt(s, p, i) ==
    /\ i + Len(p) - 1 <= Len(s)
    /\ \A k \in 1..Len(p) : s[i + k - 1] = p[k]

\* Python's `p in s` / re.search of a pattern without metacharacters
Contains(s, p) == \E i \in 1..(Len(s) - Len(p) + 1) : OccursAt(s, p, i)

RECURSIVE ReplaceFrom(_, _, _, _)
ReplaceFrom(s, old, new, i) ==
    IF i > Len(s) THEN <<>>
    ELSE IF OccursAt(s, old, i)
         THEN new \o ReplaceFrom(s, old, new, i + Len(old))
         ELSE <<s[i]>> \o ReplaceFrom(s, old, new, i + 1)

\* str.replace(old, new): every non-overlapping occurrence, left to right;
\* a missing value stays missing
StrReplace(s, old, new) == IF s = NaN THEN NaN ELSE ReplaceFrom(s, old, new, 1)

-----------------------------------------------------------------------------
(* Dates *)

IsLeap(y) == (y % 4 = 0 /\ y % 100 # 0) \/ y % 400 = 0

DaysInMonth(y, m) ==
    IF m = 2 THEN (IF IsLeap(y) THEN 29 ELSE 28)
    ELSE IF m \in {4, 6, 9, 11} THEN 30 ELSE 31

Date(y, m, d) == [year |-> y, month |-> m, day |-> d]

RECURSIVE DaysBeforeMonth(_, _)
DaysBeforeMonth(y, m) ==
    IF m = 1 THEN 0 ELSE DaysBeforeMonth(y, m - 1) + DaysInMonth(y, m - 1)

\* proleptic Gregorian ordinal, 0001-01-01 = 1
Ordinal(d) ==
    LET y == d.year - 1
    IN  365 * y + (y \div 4) - (y \div 100) + (y \div 400)
        + DaysBeforeMonth(d.year, d.month) + d.day

\* Series.dt.day_of_week: Monday = 0 .. Sunday = 6
DayOfWeek(d) == (Ordinal(d) + 6) % 7

\* d1 <= d2 on timestamps
DateLeq(d1, d2) == Ordinal(d1) <= Ordinal(d2)

YearsModelled == 2020..2021

Dates ==
    {Date(y, m, d) : y \in YearsModelled, m \in 1..12, d \in 1..31} \
    {dt \in {Date(y, m, d) : y \in YearsModelled, m \in 1..12, d \in 29..31} :
        dt.day > DaysInMonth(dt.year, dt.month)}

\* holidays.country_holidays('GB', subdiv='ENG') for one year: the public
\* holidays of England, substitute ("observed") days included
EnglandHolidays(y) ==
    IF y = 2020 THEN
        {Date(2020, 1, 1), Date(2020, 4, 10), Date(2020, 4, 13), Date(2020, 5, 8),
         Date(2020, 5, 25), Date(2020, 8, 31), Date(2020, 12, 25),
         Date(2020, 12, 26), Date(2020, 12, 28)}
    ELSE IF y = 2021 THEN
        {Date(2021, 1, 1), Date(2021, 4, 2), Date(2021, 4, 5), Date(2021, 5, 3),
         Date(2021, 5, 31), Date(2021, 8, 30), Date(2021, 12, 25),
         Date(2021, 12, 26), Date(2021, 12, 27), Date(2021, 12, 28)}
    ELSE {}

-----------------------------------------------------------------------------
(* utils.add_time_dimensions *)

Rows(t) == 1..Len(t)

MinYear(t) == CHOOSE y \in {t[i].Incdate.year : i \in Rows(t)} :
                  \A j \in Rows(t) : y <= t[j].Incdate.year
MaxYear(t) == CHOOSE y \in {t[i].Incdate.year : i \in Rows(t)} :
                  \A j \in Rows(t) : y >= t[j].Incdate.year

\* mutant: quarters of the calendar year (freq 'Q-DEC')
QYearCalendar(d) == d.year

\* dt.to_period('Q-MAR').dt.qyear: the year in which the fiscal year ends
QYear(d) == IF d.month <= 3 THEN d.year ELSE d.year + 1

FinYear(d) == QYear(d) - 1

\* dt.to_period('M').dt.start_time
MonthStart(d) == Date(d.year, d.month, 1)

\* dt.to_period('W').dt.start_time, as the ordinal of that week's Monday
WeekStart(d) == Ordinal(d) - DayOfWeek(d)

\* the holiday calendar built for range(min().year, max().year + 1)
EngHol(t) == UNION {EnglandHolidays(y) : y \in MinYear(t)..MaxYear(t)}

\* mutant: the two overrides in the opposite order
FlagWeekendLast(d, weekday, eng_hol) ==
    LET a == "No"
        b == IF d \in eng_hol THEN "Bank Holiday" ELSE a
    IN  IF weekday \in {5, 6} THEN "Weekend" ELSE b

\* lines 30-32: default, then the weekend override, then the holiday override
Flag(d, weekday, eng_hol) ==
    LET a == "No"
        b == IF weekday \in {5, 6} THEN "Weekend" ELSE a
    IN  IF d \in eng_hol THEN "Bank Holiday" ELSE b

TimeRow(r, eng_hol) ==
    LET d == r.Incdate
        weekday == DayOfWeek(d)
    IN  [Incdate  |-> d,
         fin_year |-> FinYear(d),
         month    |-> MonthStart(d),
         week     |-> WeekStart(d),
         weekday  |-> weekday,
         BH_or_WE |-> Flag(d, weekday, eng_hol)]

add_time_dimensions(t) == [i \in Rows(t) |-> TimeRow(t[i], EngHol(t))]

DateTables == UNION {[1..n -> {[Incdate |-> d] : d \in Dates}] : n \in 1..MaxDateRows}

Idle ==
    /\ corona_periods = <<>>
    /\ animal_keywords = <<>>
    /\ stripped = <<>>
    /\ calls = 0
    /\ kml_data = {}
    /\ census_data = <<>>
    /\ map_data = {}

InitTime ==
    /\ pc = "time"
    /\ to_prep \in DateTables
    /\ prev = <<>>
    /\ raised = "none"
    /\ Idle

AddTimeDimensions ==
    /\ pc = "time"
    /\ prev' = to_prep
    /\ to_prep' = add_time_dimensions(to_prep)
    /\ pc' = "done"
    /\ UNCHANGED <<raised, corona_periods, animal_keywords, stripped, calls,
                   kml_data, census_data, map_data>>

NextTime == AddTimeDimensions

SpecTime == InitTime /\ [][NextTime]_vars

\* C1: after add_time_dimensions every row's fin_year is the calendar year
\* minus one for a date in January, February or March, and the calendar year
\* for a date in April to December.
C1_FinYear ==
    pc = "done" =>
        \A i \in Rows(to_prep) :
            LET d == prev[i].Incdate
            IN  to_prep[i].fin_year =
                    IF d.month \in {1, 2, 3} THEN d.year - 1 ELSE d.year

\* 2020-03-27 got fin_year 2019 and 2020-04-01 can get fin_year 2020
C1_Witness ==
    /\ pc = "done"
    /\ \E i \in Rows(to_prep) :
           /\ prev[i].Incdate = Date(2020, 3, 27)
           /\ to_prep[i].fin_year = 2019

\* C2: after add_time_dimensions BH_or_WE is 'Bank Holiday' for a date in the
\* England holiday set (Saturdays and Sundays included), otherwise 'Weekend'
\* for weekday 5 or 6, otherwise 'No'.
C2_Flag ==
    pc = "done" =>
        \A i \in Rows(to_prep) :
            LET d == prev[i].Incdate
                r == to_prep[i]
            IN  /\ r.BH_or_WE \in {"No", "Weekend", "Bank Holiday"}
                /\ r.weekday \in 0..6
                /\ d \in EnglandHolidays(d.year) => r.BH_or_WE = "Bank Holiday"
                /\ (d \notin EnglandHolidays(d.year) /\ r.weekday \in {5, 6})
                       => r.BH_or_WE = "Weekend"
                /\ (d \notin EnglandHolidays(d.year) /\ r.weekday \notin {5, 6})
                       => r.BH_or_WE = "No"

\* Boxing Day 2020 fell on a Saturday and is flagged as a bank holiday
C2_Witness ==
    /\ pc = "done"
    /\ \E i \in Rows(to_prep) :
           /\ prev[i].Incdate = Date(2020, 12, 26)
           /\ to_prep[i].weekday = 5
           /\ to_prep[i].BH_or_WE = "Bank Holiday"

-----------------------------------------------------------------------------
(* config.py: the two mappings *)

\* a dict is the sequence of its items in insertion order
HasKey(d, k) == \E i \in 1..Len(d) : d[i].key = k

\* d[k] = v: a key already present keeps its position and takes the new value
DictSet(d, k, v) ==
    IF HasKey(d, k)
    THEN [i \in 1..Len(d) |-> IF d[i].key = k THEN [key |-> k, val |-> v] ELSE d[i]]
    ELSE Append(d, [key |-> k, val |-> v])

RECURSIVE DictUpTo(_, _)
DictUpTo(items, n) ==
    IF n = 0 THEN <<>>
    ELSE DictSet(DictUpTo(items, n - 1), items[n].key, items[n].val)

\* a dict display {k1: v1, k2: v2, ...}, evaluated left to right
DictDisplay(items) == DictUpTo(items, Len(items))

Item(k, v) == [key |-> k, val |-> v]

CoronaItems == <<
    Item("First lockdown", <<Date(2020, 3, 26), Date(2020, 5, 9)>>),
    Item("Step-wise loosening of restrictions", <<Date(2020, 5, 10), Date(2020, 10, 13)>>),
    Item("Regional tier system introduced", <<Date(2020, 10, 14), Date(2020, 11, 4)>>),
    Item("Second lockdown", <<Date(2020, 11, 5), Date(2020, 12, 1)>>),
    Item("New tier system introduced", <<Date(2020, 12, 2), Date(2021, 1, 5)>>),
    Item("Third lockdown", <<Date(2021, 1, 6), Date(2021, 3, 7)>>),
    Item("Step-wise loosening of restrictions", <<Date(2021, 3, 8), Date(2021, 7, 18)>>) >>

AnimalItems == <<
    Item("dog", <<<<"d","o","g">>, <<"g","r","e","y","h","o","u","n","d">>, <<"j","a","c","k"," ","r","u","s","s","e","l","l">>, <<"p","u","p","p","y">>, <<"h","u","s","k","e","y">>,
                  <<"g","e","r","m","a","n"," ","s","h","e","p","h","e","r","d">>, <<"t","e","r","r","i","e","r">>, <<"c","h","i","h","u","a","h","u","a">>, <<"j","a","c","k"," ","r","u","s","s","e","l">>,
                  <<"p","u","p","p","i","e","s">>, <<"l","a","b","r","a","d","o","r">>>>),
    Item("cat", <<<<"c","a","t">>, <<"k","i","t","t","e","n">>, <<" ","k"," ","i","t","t","e","n"," ">>>>),
    Item("bird", <<<<"b","i","r","d">>, <<"p","i","g","e","o","n">>, <<"p","i","d","g","e","o","n">>, <<"s","w","i","f","t">>, <<"f","a","l","c","o","n">>, <<"c","r","o","w">>,
                   <<"m","a","g","p","i","e">>, <<"k","e","s","t","r","e","l">>, <<"e","a","g","l","e">>, <<"g","u","l","l">>, <<"h","e","r","o","n">>, <<"s","w","a","n">>,
                   <<"g","o","o","s","e">>, <<"p","a","r","r","o","t">>, <<"s","p","a","r","r","o","w">>, <<"o","w","l">>, <<"s","t","a","r","l","i","n","g">>, <<"h","a","w","k">>,
                   <<"d","u","c","k">>, <<"d","u","c","k","l","i","n","g">>, <<"b","u","d","g","i","e">>, <<"g","e","e","s","e">>, <<"m","a","l","l","a","r","d">>,
                   <<"d","u","i","c","k","l","i","n","g">>, <<"k","e","s","t","e","r","l">>, <<"c","h","i","c","k">>, <<"s","w","i","r","f","t">>, <<"c","y","g","n","e","t">>,
                   <<"g","o","s","l","i","n","g">>>>),
    Item("horse", <<<<"h","o","r","s","e">>, <<"f","o","a","l">>, <<"p","o","n","y">>, <<"d","o","r","s","e"," ">>>>),
    Item("cow", <<<<"c","o","w">>, <<"c","a","l","f">>>>),
    Item("pig", <<<<"p","i","g">>>>),
    Item("sheep", <<<<"s","h","e","e","p">>, <<"e","w","e">>, <<"l","a","m","b">>>>),
    Item("deer", <<<<"d","e","e","r">>, <<" ","d","e","a","r"," ">>>>),
    Item("fox", <<<<"f","o","x">>, <<"f","o","s"," ">>>>),
    Item("squirrel", <<<<"s","q","u","i","r","r","e","l">>>>),
    Item("snake", <<<<"s","n","a","k","e">>, <<"b","o","a">>>>),
    Item("small animal", <<<<"h","a","m","s","t","e","r">>, <<"g","u","i","n","e","a"," ","p","i","g">>, <<"r","a","b","b","i","t">>, <<"h","e","d","g","e","h","o","g">>,
                           <<"c","h","i","n","c","h","i","l","l","a">>, <<"b","a","d","g","e","r">>>>) >>

-----------------------------------------------------------------------------
(* utils.group_animals *)

UpperCase == <<"A","B","C","D","E","F","G","H","I","J","K","L","M","N","O","P","Q","R","S","T","U","V","W","X","Y","Z">>
LowerCase == <<"a","b","c","d","e","f","g","h","i","j","k","l","m","n","o","p","q","r","s","t","u","v","w","x","y","z">>

LowerChar(c) ==
    IF \E k \in 1..26 : UpperCase[k] = c
    THEN LowerCase[CHOOSE k \in 1..26 : UpperCase[k] = c]
    ELSE c

\* Series.str.lower() on one value
StrLower(s) == [i \in 1..Len(s) |-> LowerChar(s[i])]

\* Series.str.contains('|'.join(keyword_list)) on one value: the regular
\* expression is an alternation of plain keywords
ContainsAny(s, keyword_list) ==
    \E k \in 1..Len(keyword_list) : Contains(s, keyword_list[k])

HasAnimal(r) == "animal" \in DOMAIN r

\* the value of the 'animal' cell; the column is NaN where never assigned
AnimalOf(r) == IF HasAnimal(r) THEN r.animal ELSE "NaN"

\* mutant: a record that already has a category keeps it
TagRowFirstWins(r, animal, keyword_list) ==
    [Incident_Detail |-> r.Incident_Detail,
     animal |-> IF AnimalOf(r) = "NaN"
                   /\ ContainsAny(StrLower(r.Incident_Detail), keyword_list)
                THEN animal ELSE AnimalOf(r)]

\* lines 41-44 on one record: to_prep.loc[mask, 'animal'] = animal
TagRow(r, animal, keyword_list) ==
    [Incident_Detail |-> r.Incident_Detail,
     animal |-> IF ContainsAny(StrLower(r.Incident_Detail), keyword_list)
                THEN animal ELSE AnimalOf(r)]

RECURSIVE TagUpTo(_, _, _)
\* one record after the first n items of animal_kw_dict.items()
TagUpTo(r, animal_kw_dict, n) ==
    IF n = 0 THEN r
    ELSE TagRow(TagUpTo(r, animal_kw_dict, n - 1),
                animal_kw_dict[n].key, animal_kw_dict[n].val)

\* the loop of lines 40-44; each pass assigns to the rows its mask selects
group_animals(t, animal_kw_dict) ==
    [i \in Rows(t) |-> TagUpTo(t[i], animal_kw_dict, Len(animal_kw_dict))]

\* str.contains gives NaN for a missing description, and .loc refuses a mask
\* that holds NaN; a column that holds nothing but NaN has no .str accessor
\* (float column) or yields a mask that is no boolean mask (object column)
MaskErrors(t) ==
    IF \A i \in Rows(t) : t[i].Incident_Detail = NaN
    THEN {"AttributeError", "KeyError"}
    ELSE IF \E i \in Rows(t) : t[i].Incident_Detail = NaN
         THEN {"ValueError"}
         ELSE {}

Vocabulary == {<<"D","o","g">>, <<"g","u","i","n","e","a">>, <<"p","i","g">>, <<"P","I","G","E","O","N">>, <<"t","r","a","p","p","e","d">>}

Descriptions ==
    {NaN} \cup Vocabulary \cup {a \o <<" ">> \o b : a \in Vocabulary, b \in Vocabulary}

DescTables ==
    UNION {[1..n -> {[Incident_Detail |-> s] : s \in Descriptions}] : n \in 1..MaxDescRows}

InitAnimals ==
    /\ pc = "import"
    /\ to_prep \in DescTables
    /\ prev = <<>>
    /\ raised = "none"
    /\ Idle

\* `import config`
ImportConfig ==
    /\ pc = "import"
    /\ corona_periods' = DictDisplay(CoronaItems)
    /\ animal_keywords' = DictDisplay(AnimalItems)
    /\ pc' = "animals"
    /\ UNCHANGED <<to_prep, prev, raised, stripped, calls, kml_data, census_data,
                   map_data>>

\* group_animals(to_prep, config.animal_keywords)
GroupAnimals ==
    /\ pc = "animals"
    /\ prev' = to_prep
    /\ pc' = "done"
    /\ IF Len(animal_keywords) > 0 /\ MaskErrors(to_prep) # {}
       THEN /\ raised' \in MaskErrors(to_prep)
            /\ to_prep' = to_prep
       ELSE /\ raised' = "none"
            /\ to_prep' = group_animals(to_prep, animal_keywords)
    /\ UNCHANGED <<corona_periods, animal_keywords, stripped, calls, kml_data,
                   census_data, map_data>>

NextAnimals == ImportConfig \/ GroupAnimals

SpecAnimals == InitAnimals /\ [][NextAnimals]_vars

\* the categories, by position in the lexicon's declaration, with a keyword
\* that occurs in the lower-cased text low
MatchingLowered(low) ==
    {j \in 1..Len(AnimalItems) :
        \E k \in 1..Len(AnimalItems[j].val) :
            \E p \in 1..Len(low) : OccursAt(low, AnimalItems[j].val[k], p)}

Matching(s) == MatchingLowered([i \in 1..Len(s) |-> LowerChar(s[i])])

Last(S) == CHOOSE j \in S : \A k \in S : k <= j

AllDescribed(t) == \A i \in Rows(t) : t[i].Incident_Detail # NaN

\* C3: on a table in which every record has a description, group_animals
\* gives each record the one matching category, the matching category that
\* is declared last when several match, and NaN when none matches.
C3_LastMatchWins ==
    (pc = "done" /\ AllDescribed(prev)) =>
        /\ raised = "none"
        /\ \A i \in Rows(to_prep) :
               LET m == Matching(prev[i].Incident_Detail)
               IN  /\ to_prep[i].Incident_Detail = prev[i].Incident_Detail
                   /\ m = {} => to_prep[i].animal = "NaN"
                   /\ m # {} => to_prep[i].animal = AnimalItems[Last(m)].key

\* 'guinea pig' matches 'pig' and 'small animal' and ends as 'small animal',
\* beside a record that matches nothing
C3_Witness ==
    /\ pc = "done"
    /\ raised = "none"
    /\ \E i, j \in Rows(to_prep) :
           /\ prev[i].Incident_Detail = <<"g","u","i","n","e","a"," ","p","i","g">>
           /\ Cardinality(Matching(prev[i].Incident_Detail)) = 2
           /\ to_prep[i].animal = "small animal"
           /\ prev[j].Incident_Detail = <<"t","r","a","p","p","e","d">>
           /\ to_prep[j].animal = "NaN"

\* C7: group_animals does not fail on a record without description: that
\* record keeps a NaN category and every other record is classified.
C7_NullDescriptionTolerated ==
    pc = "done" =>
        /\ raised = "none"
        /\ \A i \in Rows(to_prep) :
               IF prev[i].Incident_Detail = NaN
               THEN AnimalOf(to_prep[i]) = "NaN"
               ELSE LET m == Matching(prev[i].Incident_Detail)
                    IN  AnimalOf(to_prep[i]) =
                            IF m = {} THEN "NaN" ELSE AnimalItems[Last(m)].key

\* C10: the period table as built holds ranges that start no later than
\* they end, do not overlap, and are listed in chronological order.
C10_PeriodsChronological ==
    pc # "import" =>
        /\ \A i \in 1..Len(corona_periods) :
               DateLeq(corona_periods[i].val[1], corona_periods[i].val[2])
        /\ \A i \in 1..Len(corona_periods), j \in 1..Len(corona_periods) :
               i # j => \/ ~DateLeq(corona_periods[j].val[1], corona_periods[i].val[2])
                        \/ ~DateLeq(corona_periods[i].val[1], corona_periods[j].val[2])
        /\ \A i \in 2..Len(corona_periods) :
               ~DateLeq(corona_periods[i].val[1], corona_periods[i - 1].val[2])

-----------------------------------------------------------------------------
(* utils.modify_wards *)

\* lines 53-77: each line assigns `new` to the rows whose Ward is in `old`
WardRules == <<
    [old |-> {<<"S","t","."," ","P","e","t","e","r","'","s">>, <<"S","t"," ","P","e","t","e","r","'","s">>},
     new |-> <<"S","t"," ","P","e","t","e","r","s">>],
    [old |-> {<<"S","t","."," ","M","i","c","h","a","e","l","'","s">>},
     new |-> <<"S","t"," ","M","i","c","h","a","e","l","'","s">>],
    [old |-> {<<"S","t","."," ","P","a","u","l","s">>},
     new |-> <<"S","t"," ","P","a","u","l","s">>],
    [old |-> {<<"B","u","s","h","b","u","r","y"," ","S","o","u","t","h"," ","a","n","d"," ","L","o","w"," ","H","i","l","l">>},
     new |-> <<"B","u","s","h","b","u","r","y"," ","S","o","u","t","h"," ","&"," ","L","o","w"," ","H","i","l","l">>],
    [old |-> {<<"B","o","u","r","n","v","i","l","l","e">>},
     new |-> <<"B","o","u","r","n","v","i","l","l","e"," ","&"," ","C","o","t","t","e","r","i","d","g","e">>],
    [old |-> {<<"S","p","r","i","n","g"," ","V","a","l","e">>},
     new |-> <<"E","t","t","i","n","g","s","h","a","l","l"," ","S","o","u","t","h"," ","&"," ","S","p","r","i","n","g"," ","V","a","l","e">>],
    [old |-> {<<"L","o","n","g","b","r","i","d","g","e">>},
     new |-> <<"L","o","n","g","b","r","i","d","g","e"," ","&"," ","W","e","s","t"," ","H","e","a","t","h">>],
    [old |-> {<<"S","p","a","r","k","b","r","o","o","k">>},
     new |-> <<"S","p","a","r","k","b","r","o","o","k"," ","&"," ","B","a","l","s","a","l","l"," ","H","e","a","t","h"," ","E","a","s","t">>],
    [old |-> {<<"H","o","d","g","e"," ","H","i","l","l">>},
     new |-> <<"B","r","o","m","f","o","r","d"," ","&"," ","H","o","d","g","e"," ","H","i","l","l">>],
    [old |-> {<<"M","o","s","e","l","e","y"," ","a","n","d"," ","K","i","n","g","s"," ","H","e","a","t","h">>},
     new |-> <<"M","o","s","e","l","e","y">>],
    [old |-> {<<"B","r","a","n","d","w","o","o","d">>},
     new |-> <<"B","r","a","n","d","w","o","o","d"," ","&"," ","K","i","n","g","'","s"," ","H","e","a","t","h">>],
    [old |-> {<<"S","o","h","o">>},
     new |-> <<"S","o","h","o"," ","&"," ","J","e","w","e","l","l","e","r","y"," ","Q","u","a","r","t","e","r">>],
    [old |-> {<<"B","i","l","s","t","o","n"," ","E","a","s","t">>},
     new |-> <<"B","i","l","s","t","o","n"," ","S","o","u","t","h">>],
    [old |-> {<<"L","o","z","e","l","l","s"," ","a","n","d"," ","E","a","s","t"," ","H","a","n","d","s","w","o","r","t","h">>},
     new |-> <<"L","o","z","e","l","l","s">>],
    [old |-> {<<"E","t","t","i","n","g","s","h","a","l","l">>},
     new |-> <<"E","t","t","i","n","g","s","h","a","l","l"," ","N","o","r","t","h">>],
    [old |-> {<<"S","t","e","c","h","f","o","r","d"," ","a","n","d"," ","Y","a","r","d","l","e","y"," ","N","o","r","t","h">>},
     new |-> <<"Y","a","r","d","l","e","y"," ","W","e","s","t"," ","&"," ","S","t","e","c","h","f","o","r","d">>],
    [old |-> {<<"W","a","s","h","w","o","o","d"," ","H","e","a","t","h">>},
     new |-> <<"B","r","o","m","f","o","r","d"," ","&"," ","H","o","d","g","e"," ","H","i","l","l">>],
    [old |-> {<<"S","u","t","t","o","n"," ","N","e","w"," ","H","a","l","l">>},
     new |-> <<"S","u","t","t","o","n"," ","W","a","l","m","l","e","y"," ","&"," ","M","i","n","w","o","r","t","h">>],
    [old |-> {<<"S","p","r","i","n","g","f","i","e","l","d">>},
     new |-> <<"H","a","l","l"," ","G","r","e","e","n"," ","N","o","r","t","h">>],
    [old |-> {<<"H","a","l","l"," ","G","r","e","e","n">>},
     new |-> <<"H","a","l","l"," ","G","r","e","e","n"," ","S","o","u","t","h">>],
    [old |-> {<<"K","i","n","g","s"," ","N","o","r","t","o","n">>},
     new |-> <<"K","i","n","g","'","s"," ","N","o","r","t","o","n"," ","S","o","u","t","h">>],
    [old |-> {<<"T","y","b","u","r","n">>},
     new |-> <<"E","r","d","i","n","g","t","o","n">>],
    [old |-> {<<"W","e","o","l","e","y">>, <<"S","e","l","l","y"," ","O","a","k">>},
     new |-> <<"W","e","o","l","e","y"," ","&"," ","S","e","l","l","y"," ","O","a","k">>] >>

\* mutant: Tyburn is renamed to 'Soho', a name an earlier line renames
RuleNewChained(k) == IF k = 22 THEN <<"S","o","h","o">> ELSE WardRules[k].new

RuleNew(k) == WardRules[k].new

RuleOld(k) == WardRules[k].old

\* line 52: Series.str.replace(' Ward', '')
StripWard(name) == StrReplace(name, <<" ","W","a","r","d">>, <<>>)

RECURSIVE RenameUpTo(_, _)
\* a ward name after the first n rename lines, each reading the column the
\* lines before it wrote
RenameUpTo(name, n) ==
    IF n = 0 THEN name
    ELSE LET before == RenameUpTo(name, n - 1)
         IN  IF before \in RuleOld(n) THEN RuleNew(n) ELSE before

NewWard(name) == RenameUpTo(StripWard(name), Len(WardRules))

\* line 79 reads the renamed column
NewDistrict(r) == IF NewWard(r.Ward) = <<"T","i","p","t","o","n"," ","G","r","e","e","n">> THEN "Sandwell" ELSE r.District

modify_wards(t) ==
    [i \in Rows(t) |-> [Ward |-> NewWard(t[i].Ward), District |-> NewDistrict(t[i])]]

PlainNames ==
    UNION {RuleOld(k) : k \in 1..Len(WardRules)}
    \cup {WardRules[k].new : k \in 1..Len(WardRules)}
    \cup {<<"T","i","p","t","o","n"," ","G","r","e","e","n">>, <<"W","a","r","d"," ","E","n","d">>}

WardNames ==
    PlainNames
    \cup {n \o <<" ","W","a","r","d">> : n \in PlainNames}
    \cup {NaN, <<"U","p","p","e","r"," ","W","a","r","d","l","e","y">>, <<"H","a","l","l"," ","G","r","e","e","n"," ","W","a","r","d"," ","W","a","r","d">>, <<"B","o","u","r","n","v","i","l","l","e"," ","W","a"," ","W","a","r","d","r","d">>}

Districts == {"Birmingham", "Dudley"}

WardTables ==
    UNION {[1..n -> [Ward : WardNames, District : Districts]] : n \in 1..MaxWardRows}

InitWards ==
    /\ pc = "wards"
    /\ to_prep \in WardTables
    /\ prev = <<>>
    /\ raised = "none"
    /\ Idle

\* to_prep = modify_wards(to_prep)
ModifyWards ==
    /\ pc = "wards"
    /\ calls < MaxCalls
    /\ calls' = calls + 1
    /\ prev' = to_prep
    /\ stripped' = [i \in Rows(to_prep) |-> StripWard(to_prep[i].Ward)]
    /\ to_prep' = modify_wards(to_prep)
    /\ UNCHANGED <<pc, raised, corona_periods, animal_keywords, kml_data,
                   census_data, map_data>>

NextWards == ModifyWards

SpecWards == InitWards /\ [][NextWards]_vars

EndsWith(s, p) == Len(s) >= Len(p) /\ OccursAt(s, p, Len(s) - Len(p) + 1)

\* the name without one trailing ' Ward'
WithoutSuffix(s) ==
    IF s # NaN /\ EndsWith(s, <<" ","W","a","r","d">>) THEN SubSeq(s, 1, Len(s) - Len(<<" ","W","a","r","d">>)) ELSE s

C8_TrailingSuffixOnly ==
    calls >= 1 => \A i \in Rows(prev) : stripped[i] = WithoutSuffix(prev[i].Ward)

-----------------------------------------------------------------------------
(* utils.combine_maps_w_data *)

\* a numeric cell of a joined row: a number, or NaN where the join found no match
Num(v) == [isna |-> FALSE, v |-> v]
NA == [isna |-> TRUE, v |-> 0]

RECURSIVE SumCounts(_, _)
\* x.sum(axis=1) over the columns ys of one row of numbers
SumCounts(counts, ys) ==
    IF ys = {} THEN 0
    ELSE LET y == CHOOSE y \in ys : TRUE
         IN  counts[y] + SumCounts(counts, ys \ {y})

\* a cell as groupby sum reads it: NaN is skipped
SkipNA(cell) == IF cell.isna THEN 0 ELSE cell.v

RECURSIVE SumYear(_, _)
\* groupby sum of the column of year y over the row set rs; a group of NaN
\* alone sums to 0
SumYear(rs, y) ==
    IF rs = {} THEN 0
    ELSE LET r == CHOOSE r \in rs : TRUE
         IN  SkipNA(r.counts[y]) + SumYear(rs \ {r}, y)

RECURSIVE SumTotal(_)
\* groupby sum of the column Total_Incidents over the row set rs
SumTotal(rs) ==
    IF rs = {} THEN 0
    ELSE LET r == CHOOSE r \in rs : TRUE
         IN  SkipNA(r.Total_Incidents) + SumTotal(rs \ {r})

\* the fin_year values of the incident table: the columns after unstack
FinYears(inc) == {inc[i].fin_year : i \in Rows(inc)}

\* groupby(['fin_year', 'District', 'Ward']).size(), 0 where unstack left a gap
GroupSize(inc, y, d, w) ==
    Cardinality({i \in Rows(inc) :
        inc[i].fin_year = y /\ inc[i].District = d /\ inc[i].Ward = w})

\* mutant: the total counts only the two years of the rate
TotalOfWindow(counts, ys) == SumCounts(counts, ys \cap {2021, 2022})

\* .assign(Total_Incidents=lambda x: x.sum(axis=1))
TotalOf(counts, ys) == SumCounts(counts, ys)

PivotRow(d, w, counts, ys) ==
    [District |-> d, Ward |-> w, counts |-> counts,
     Total_Incidents |-> TotalOf(counts, ys)]

\* lines 109-113: one row per (District, Ward) of the incident table
Pivot(inc) ==
    {PivotRow(dw[1], dw[2],
              [y \in FinYears(inc) |-> GroupSize(inc, y, dw[1], dw[2])],
              FinYears(inc)) :
        dw \in {<<inc[i].District, inc[i].Ward>> : i \in Rows(inc)}}

\* the boundary rows that have pivot rows of their ward, once per pivot row
JoinMatched(kml, pivot) ==
    {[piece |-> k, Ward |-> kml[k].Ward, geometry |-> kml[k].geometry,
      District |-> p.District,
      counts |-> [y \in DOMAIN p.counts |-> Num(p.counts[y])],
      Total_Incidents |-> Num(p.Total_Incidents)] :
        <<k, p>> \in {kp \in (DOMAIN kml) \X pivot : kp[2].Ward = kml[kp[1]].Ward}}

\* lines 105-118: kml_data.join(pivot, how='left', on='Ward'): every boundary
\* row once per pivot row of its ward, or once with NaN where there is none
Join(kml, pivot, ys) ==
    JoinMatched(kml, pivot)
    \cup {[piece |-> k, Ward |-> kml[k].Ward, geometry |-> kml[k].geometry,
           District |-> "NaN",
           counts |-> [y \in ys |-> NA],
           Total_Incidents |-> NA] :
             k \in {j \in DOMAIN kml : \A p \in pivot : p.Ward # kml[j].Ward}}

\* lines 120-124 on one name: apostrophes removed, then every name holding
\* 'Ettingshall' collapsed
CanonWard(name) ==
    LET w == StrReplace(name, <<"'">>, <<>>)
    IN  IF Contains(w, <<"E","t","t","i","n","g","s","h","a","l","l">>) THEN <<"E","t","t","i","n","g","s","h","a","l","l">> ELSE w

\* lines 120-124 on the joined rows
Renamed(joined) == {[r EXCEPT !.Ward = CanonWard(r.Ward)] : r \in joined}

\* the districts in sorted order, the order of the pivot's index
DistrictOrder == <<"Birmingham", "Wolverhampton">>

RECURSIVE DistrictSum(_, _, _)
\* groupby sum of the District column of one group: the strings joined end to
\* end in row order (boundary rows in order, pivot rows by District), NaN
\* skipped; position n runs over (boundary row, district) pairs
DistrictSum(rs, kml, n) ==
    IF n = 0 THEN <<>>
    ELSE LET k == ((n - 1) \div Len(DistrictOrder)) + 1
             d == DistrictOrder[((n - 1) % Len(DistrictOrder)) + 1]
             before == DistrictSum(rs, kml, n - 1)
         IN  IF \E r \in rs : r.piece = k /\ r.District = d
             THEN Append(before, d) ELSE before

\* mutant: rows sharing a name are not merged
DissolveNone(rows, kml, ys) ==
    {[Ward |-> r.Ward,
      geometry |-> r.geometry,
      District |-> IF r.District = "NaN" THEN <<>> ELSE <<r.District>>,
      counts |-> [y \in ys |-> SkipNA(r.counts[y])],
      Total_Incidents |-> SkipNA(r.Total_Incidents)] :
        r \in rows}

DissolveGroup(w, rs, kml, ys) ==
    [Ward |-> w,
     geometry |-> UNION {r.geometry : r \in rs},
     District |-> DistrictSum(rs, kml, Len(kml) * Len(DistrictOrder)),
     counts |-> [y \in ys |-> SumYear(rs, y)],
     Total_Incidents |-> SumTotal(rs)]

\* line 126: dissolve(by='Ward', aggfunc='sum'): one row per name, the
\* geometries united and every other column summed
Dissolve(rows, kml, ys) ==
    {DissolveGroup(w, {r \in rows : r.Ward = w}, kml, ys) : w \in {r.Ward : r \in rows}}

\* lines 128-136
FixDistrict(r) ==
    IF r.Ward \in {<<"C","a","s","t","l","e"," ","V","a","l","e">>, <<"A","l","l","e","n","s"," ","C","r","o","s","s">>} THEN <<"Birmingham">>
    ELSE IF r.Ward = <<"E","t","t","i","n","g","s","h","a","l","l">> THEN <<"Wolverhampton">>
    ELSE r.District

\* .join(census_data, how='left', on='Ward').fillna(0), column Observation
Observation(w, census) ==
    IF \E c \in census : c.Ward = w
    THEN (CHOOSE c \in census : c.Ward = w).Observation
    ELSE 0

\* mutant: the rate is not averaged over the two years
IncPerPopOneYear(counts, population) ==
    LET c == counts[2021] + counts[2022]
    IN  IF population = 0
        THEN (IF c = 0 THEN [kind |-> "nan"] ELSE [kind |-> "inf"])
        ELSE [kind |-> "finite", num |-> c * 10000, den |-> population]

\* line 142: x[[2021, 2022]].sum(axis=1).div(x.Observation * 2).mul(10000) as
\* the fraction num/den; float division by zero gives inf, and nan for 0/0
IncPerPop(counts, population) ==
    LET c == counts[2021] + counts[2022]
    IN  IF population = 0
        THEN (IF c = 0 THEN [kind |-> "nan"] ELSE [kind |-> "inf"])
        ELSE [kind |-> "finite", num |-> c * 10000, den |-> population * 2]

\* lines 138-160; the columns keep their names of before the final rename
\* except 'Population' (Observation)
WithCensus(r, population) ==
    [Ward |-> r.Ward,
     geometry |-> r.geometry,
     District |-> FixDistrict(r),
     counts |-> r.counts,
     Total_Incidents |-> r.Total_Incidents,
     Population |-> population,
     inc_per_pop |-> IncPerPop(r.counts, population)]

combine_maps_w_data(kml, inc, census) ==
    {WithCensus(r, Observation(r.Ward, census)) :
        r \in Dissolve(Renamed(Join(kml, Pivot(inc), FinYears(inc))), kml, FinYears(inc))}

\* x[[2021, 2022]] needs both columns
RateColumnsPresent(inc) == {2021, 2022} \subseteq FinYears(inc)

BoundaryWards == <<<<"E","t","t","i","n","g","s","h","a","l","l"," ","N","o","r","t","h">>, <<"E","t","t","i","n","g","s","h","a","l","l"," ","S","o","u","t","h"," ","&"," ","S","p","r","i","n","g"," ","V","a","l","e">>, <<"S","t"," ","M","i","c","h","a","e","l","'","s">>>>

KmlRow(w) == [Ward |-> w, geometry |-> {w}]

\* the boundary files of some of the wards, in a fixed order
KmlChoices ==
    {<<KmlRow(BoundaryWards[3])>>,
     <<KmlRow(BoundaryWards[1]), KmlRow(BoundaryWards[2])>>,
     <<KmlRow(BoundaryWards[2]), KmlRow(BoundaryWards[3])>>,
     <<KmlRow(BoundaryWards[1]), KmlRow(BoundaryWards[2]), KmlRow(BoundaryWards[3])>>}

IncidentYears == <<2020, 2021, 2022>>

IncidentWards == <<<<"E","t","t","i","n","g","s","h","a","l","l"," ","N","o","r","t","h">>, <<"E","t","t","i","n","g","s","h","a","l","l"," ","S","o","u","t","h"," ","&"," ","S","p","r","i","n","g"," ","V","a","l","e">>, <<"E","r","d","i","n","g","t","o","n">>>>

IndexIn(seq, x) == CHOOSE k \in 1..Len(seq) : seq[k] = x

\* position of an incident row in a fixed listing of all rows
RowRank(r) ==
    (IndexIn(IncidentYears, r.fin_year) * Len(DistrictOrder)
        + IndexIn(DistrictOrder, r.District)) * Len(IncidentWards)
    + IndexIn(IncidentWards, r.Ward)

IncidentRows ==
    {[fin_year |-> IncidentYears[y], District |-> DistrictOrder[d],
      Ward |-> IncidentWards[w]] :
        y \in 1..Len(IncidentYears), d \in 1..Len(DistrictOrder),
        w \in 1..Len(IncidentWards)}

\* incident tables up to the order of their rows, which groupby().size()
\* does not read: one listing per multiset of rows
IncidentTables ==
    UNION {{t \in [1..n -> IncidentRows] :
               \A i \in 1..(n - 1) : RowRank(t[i]) <= RowRank(t[i + 1])} :
           n \in 1..MaxIncRows}

CensusChoices ==
    SUBSET {[Ward |-> <<"E","t","t","i","n","g","s","h","a","l","l">>, Observation |-> 500],
            [Ward |-> <<"S","t"," ","M","i","c","h","a","e","l","s">>, Observation |-> 800]}

InitJoin ==
    /\ pc = "join"
    /\ to_prep \in IncidentTables
    /\ kml_data \in KmlChoices
    /\ census_data \in CensusChoices
    /\ prev = <<>>
    /\ raised = "none"
    /\ corona_periods = <<>>
    /\ animal_keywords = <<>>
    /\ stripped = <<>>
    /\ calls = 0
    /\ map_data = {}

\* map_data = combine_maps_w_data(kml_data, to_prep, census_data)
CombineMaps ==
    /\ pc = "join"
    /\ pc' = "done"
    /\ prev' = to_prep
    /\ IF RateColumnsPresent(to_prep)
       THEN /\ raised' = "none"
            /\ map_data' = combine_maps_w_data(kml_data, to_prep, census_data)
       ELSE /\ raised' = "KeyError"
            /\ map_data' = map_data
    /\ UNCHANGED <<to_prep, corona_periods, animal_keywords, stripped, calls,
                   kml_data, census_data>>

NextJoin == CombineMaps

SpecJoin == InitJoin /\ [][NextJoin]_vars

Returned == pc = "done" /\ raised = "none"

\* the boundary rows merged into output row r
PiecesOf(r) == {k \in DOMAIN kml_data : CanonWard(kml_data[k].Ward) = r.Ward}

\* the incidents recorded for a ward among names
IncidentsIn(names) == {i \in Rows(to_prep) : to_prep[i].Ward \in names}

\* the incidents recorded for one of the boundary wards of output row r
IncidentsOf(r) == IncidentsIn({kml_data[k].Ward : k \in PiecesOf(r)})

\* row r counts the incidents incs, year by year, and nothing else
CountsExactly(r, incs) ==
    /\ incs = {} =>
           /\ r.Total_Incidents = 0
           /\ \A y \in DOMAIN r.counts : r.counts[y] = 0
    /\ DOMAIN r.counts = FinYears(to_prep)
    /\ \A y \in DOMAIN r.counts :
           r.counts[y] = Cardinality({i \in incs : to_prep[i].fin_year = y})

\* C5: in every returned row the fiscal-year columns add up to the total.
C5_YearsSumToTotal ==
    Returned =>
        \A r \in map_data : SumCounts(r.counts, DOMAIN r.counts) = r.Total_Incidents

\* the collapsed 'Ettingshall' row holds incidents of both of its wards,
\* beside a ward without incidents
C5_Witness ==
    /\ Returned
    /\ \E r, z \in map_data :
           /\ r.Ward = <<"E","t","t","i","n","g","s","h","a","l","l">>
           /\ Cardinality(PiecesOf(r)) = 2
           /\ \A k \in PiecesOf(r) : \E i \in Rows(to_prep) : to_prep[i].Ward = kml_data[k].Ward
           /\ r.Total_Incidents >= 2
           /\ z.Ward = <<"S","t"," ","M","i","c","h","a","e","l","s">>
           /\ z.Total_Incidents = 0

\* C6 as claimed: in every returned row the rate is the number
\* (C / (P * 2)) * 10000, wards without census figure included.
C6_RateIsQuotient ==
    Returned =>
        \A r \in map_data :
            /\ r.inc_per_pop.kind = "finite"
            /\ r.inc_per_pop.den # 0
            /\ r.inc_per_pop.num * (r.Population * 2)
                   = ((r.counts[2021] + r.counts[2022]) * 10000) * r.inc_per_pop.den

\* C6 as amended: the rate is (C / (P * 2)) * 10000 in every returned row
\* with P > 0; with P = 0 it is inf when C > 0 and nan when C = 0.
C6_RateWherePopulated ==
    Returned =>
        \A r \in map_data :
            LET c == r.counts[2021] + r.counts[2022]
            IN  IF r.Population > 0
                THEN /\ r.inc_per_pop.kind = "finite"
                     /\ r.inc_per_pop.den # 0
                     /\ r.inc_per_pop.num * (r.Population * 2)
                            = (c * 10000) * r.inc_per_pop.den
                ELSE r.inc_per_pop.kind = IF c > 0 THEN "inf" ELSE "nan"

\* a populated ward with incidents in the two years, beside a ward without
\* census figure
C6_Witness ==
    /\ Returned
    /\ \E r, z \in map_data :
           /\ r.Population > 0
           /\ r.counts[2021] + r.counts[2022] >= 2
           /\ r.inc_per_pop.kind = "finite"
           /\ z.Population = 0
           /\ z.inc_per_pop.kind = "nan"

=============================================================================
